---- MODULE Spec2Model ----
(***************************************************************************)
(* Model of the maximal-clique enumeration engine                          *)
(* (src/src/maximal_clique_hashmap.cpp) and of calcRareIntensity           *)
(* (src/src/utils.cpp).                                                    *)
(*                                                                         *)
(* Instances are the integers 1..NumNodes; the integer order stands for    *)
(* the pointer order the code sorts by.  A CliqueVec is a sequence.        *)
(***************************************************************************)
EXTENDS Integers, Sequences, FiniteSets, TLC

\* ---------------------------------------------------------------- bounds
NumNodes == 6
SmallNodes == 5
MaxEdges == 2
MaxMissing == 4
MaxMatching == 3
NumTypes == 2
MaxColoLen == 3
MaxCount == 2

\* ------------------------------------------------------- program constants
INT_MAX == 2147483647
NoCount == -1

Nodes == 1..NumNodes
Node0 == 0

VARIABLES
    neighborSets,   \* input: center -> neighbor list as given by the caller
    ftype,          \* SpatialInstance::type of every instance
    adj,            \* AdjMap: instance -> ascending neighbor list
    phase,          \* position of executeBK
    degrees,        \* getDegeneracyOrdering: residual degree per vertex
    sortedNodes,    \* getDegeneracyOrdering: set of <<degree, node>>
    removed,        \* getDegeneracyOrdering: peeled vertices
    ordering,       \* the degeneracy order
    orderIndex,     \* node -> 0-based index in ordering
    i,              \* executeBK: index of the driver loop (0-based)
    stack,          \* call stack of runBKPivot / runBKRcd activations
    hashMap,        \* ResultMap filled by executeBK
    baselineMap,    \* ResultMap filled by the plain-pivot baseline
    reportLog,      \* every CliqueVec passed to report_clique by executeBK
    priorMaps,      \* ResultMaps of earlier executeBK runs on the same data
    ri              \* state of one calcRareIntensity call

vars == <<neighborSets, ftype, adj, phase, degrees, sortedNodes, removed,
          ordering, orderIndex, i, stack, hashMap, baselineMap, reportLog,
          priorMaps, ri>>

graphVars == <<neighborSets, ftype, adj, phase, degrees, sortedNodes, removed,
               ordering, orderIndex, i, stack, hashMap, baselineMap, reportLog,
               priorMaps>>

\* ------------------------------------------------------------ generic sets
RECURSIVE SubsetsOfSize(_, _)
SubsetsOfSize(S, k) ==
    IF k = 0 THEN {{}}
    ELSE UNION {{T \cup {x} : x \in S \ T} : T \in SubsetsOfSize(S, k - 1)}

SubsetsUpTo(S, k) == UNION {SubsetsOfSize(S, j) : j \in 0..k}

SeqToSet(s) == {s[k] : k \in 1..Len(s)}

EmptyMap == [x \in {} |-> {}]

\* --------------------------------------------------------------- the input
AllPairs == {e \in SUBSET Nodes : Cardinality(e) = 2}
SmallPairs == {e \in AllPairs : e \subseteq 1..SmallNodes}

\* sparse graphs: at most MaxEdges edges
SparseGraphs == SubsetsUpTo(AllPairs, MaxEdges)

\* near-complete graphs on the first SmallNodes instances (the others isolated):
\* at most MaxMissing of their pairs are not neighbors
NearCompleteGraphs == {SmallPairs \ M : M \in SubsetsUpTo(SmallPairs, MaxMissing)}

\* complete graphs minus a matching of at most MaxMatching pairs
IsMatching(M) == \A e \in M, g \in M : e # g => e \cap g = {}

MatchingGraphs ==
    {AllPairs \ M : M \in {T \in SubsetsUpTo(AllPairs, MaxMatching) : IsMatching(T)}}

Graphs == SparseGraphs \cup NearCompleteGraphs \cup MatchingGraphs

FeatureTypes == 1..NumTypes

\* feature types alternate along the identities
TypeAssignments == {[v \in Nodes |-> 1 + (v % NumTypes)]}

RECURSIVE DescendingSeq(_)
DescendingSeq(S) ==
    IF S = {} THEN << >>
    ELSE LET m == CHOOSE x \in S : \A y \in S : y <= x
         IN <<m>> \o DescendingSeq(S \ {m})

\* the caller's NeighborSet list: one per instance, neighbors unordered
\* (listed here from the largest identity down)
InputOf(E) == [v \in Nodes |-> DescendingSeq({u \in Nodes : {u, v} \in E})]

\* ---------------------------------------------------- CliqueVec operations
RECURSIVE CountInter(_, _, _, _)
CountInter(A, B, a, b) ==
    IF a > Len(A) \/ b > Len(B) THEN 0
    ELSE IF A[a] < B[b] THEN CountInter(A, B, a + 1, b)
    ELSE IF B[b] < A[a] THEN CountInter(A, B, a, b + 1)
    ELSE 1 + CountInter(A, B, a + 1, b + 1)

count_intersection(A, B) == CountInter(A, B, 1, 1)

RECURSIVE MergeDiff(_, _, _, _)
MergeDiff(A, B, a, b) ==
    IF a > Len(A) THEN << >>
    ELSE IF b > Len(B) THEN <<A[a]>> \o MergeDiff(A, B, a + 1, b)
    ELSE IF A[a] < B[b] THEN <<A[a]>> \o MergeDiff(A, B, a + 1, b)
    ELSE IF B[b] < A[a] THEN MergeDiff(A, B, a, b + 1)
    ELSE MergeDiff(A, B, a + 1, b + 1)

set_difference_helper(A, B) == MergeDiff(A, B, 1, 1)

\* an intersection that keeps the whole first operand
set_intersection_helper_left(A, B) == A

RECURSIVE MergeInter(_, _, _, _)
MergeInter(A, B, a, b) ==
    IF a > Len(A) \/ b > Len(B) THEN << >>
    ELSE IF A[a] < B[b] THEN MergeInter(A, B, a + 1, b)
    ELSE IF B[b] < A[a] THEN MergeInter(A, B, a, b + 1)
    ELSE <<A[a]>> \o MergeInter(A, B, a + 1, b + 1)

set_intersection_helper(A, B) == MergeInter(A, B, 1, 1)

\* std::lower_bound: first position whose element is not less than v
LowerBound(S, v) ==
    IF \E k \in 1..Len(S) : ~(S[k] < v)
    THEN CHOOSE k \in 1..Len(S) : ~(S[k] < v) /\ \A j \in 1..(k - 1) : S[j] < v
    ELSE Len(S) + 1

\* a backtracking step that leaves the vertex among the candidates
EraseSorted_keep(S, v) == S

\* auto it = lower_bound(P, v); if (it != end && *it == v) P.erase(it);
EraseSorted(S, v) ==
    LET k == LowerBound(S, v)
    IN IF k <= Len(S) /\ S[k] = v
       THEN SubSeq(S, 1, k - 1) \o SubSeq(S, k + 1, Len(S))
       ELSE S

\* a backtracking step that appends instead of inserting in order
InsertSorted_atEnd(S, v) == Append(S, v)

\* auto it = lower_bound(X, v); X.insert(it, v);
InsertSorted(S, v) ==
    LET k == LowerBound(S, v)
    IN SubSeq(S, 1, k - 1) \o <<v>> \o SubSeq(S, k, Len(S))

\* std::sort, ascending
RECURSIVE std_sort(_)
std_sort(s) ==
    IF Len(s) = 0 THEN << >>
    ELSE LET front == std_sort(SubSeq(s, 1, Len(s) - 1))
             x == s[Len(s)]
             k == LowerBound(front, x)
         IN SubSeq(front, 1, k - 1) \o <<x>> \o SubSeq(front, k, Len(front))

\* adj.find(u): an absent key is an empty neighbor list
Neighbors(u) == IF u \in DOMAIN adj THEN adj[u] ELSE << >>

OrderIdx(n) == IF n \in DOMAIN orderIndex THEN orderIndex[n] ELSE 0

\* ------------------------------------------------------------ report_clique
TypesOf(R) == [k \in 1..Len(R) |-> ftype[R[k]]]

\* a key built without the sort
ColocationKey_unsorted(R) == TypesOf(R)

ColocationKey(R) == std_sort(TypesOf(R))

RECURSIVE InsertAll(_, _, _)
InsertAll(R, k, inner) ==
    IF k > Len(R) THEN inner
    ELSE LET t == ftype[R[k]]
             old == IF t \in DOMAIN inner THEN inner[t] ELSE {}
         IN InsertAll(R, k + 1,
                [f \in DOMAIN inner \cup {t} |->
                    IF f = t THEN old \cup {R[k]} ELSE inner[f]])

report_clique(R, hm) ==
    IF Len(R) < 2 THEN hm
    ELSE LET key == ColocationKey(R)
             innerMap == IF key \in DOMAIN hm THEN hm[key] ELSE EmptyMap
         IN [c \in DOMAIN hm \cup {key} |->
                IF c = key THEN InsertAll(R, 1, innerMap) ELSE hm[c]]

\* a call of report_clique(R, <the ResultMap the activation was given>)
Report(out, R) ==
    /\ hashMap' = IF out = "hashMap" THEN report_clique(R, hashMap) ELSE hashMap
    /\ baselineMap' = IF out = "baselineMap" THEN report_clique(R, baselineMap)
                      ELSE baselineMap
    /\ reportLog' = IF out = "hashMap" THEN Append(reportLog, R) ELSE reportLog

NoReport == UNCHANGED <<hashMap, baselineMap, reportLog>>

\* ------------------------------------------------------------- call stack
Top == stack[Len(stack)]

Frame(fn, out, R, P, X) ==
    [fn |-> fn, out |-> out, R |-> R, P |-> P, X |-> X,
     pc |-> "entry", cands |-> << >>, v |-> Node0]

Below == SubSeq(stack, 1, Len(stack) - 1)

\* the activation on top returns; when it is the driver's call the for loop
\* of executeBK advances
Return ==
    /\ stack' = Below
    /\ i' = IF Len(stack) = 1 /\ phase = "drive" THEN i + 1 ELSE i
    /\ phase' = IF Len(stack) = 1 /\ phase = "baseline" THEN "compared" ELSE phase

setupVars == <<neighborSets, ftype, adj, degrees, sortedNodes, removed,
               ordering, orderIndex, priorMaps, ri>>

\* --------------------------------------------------------------- runBKPivot
RECURSIVE ScanPivot(_, _, _, _, _)
ScanPivot(C, k, P, max_inter, u_pivot) ==
    IF k > Len(C) THEN u_pivot
    ELSE IF C[k] \in DOMAIN adj /\ count_intersection(P, adj[C[k]]) > max_inter
         THEN ScanPivot(C, k + 1, P, count_intersection(P, adj[C[k]]), C[k])
         ELSE ScanPivot(C, k + 1, P, max_inter, u_pivot)

SelectPivot(P, X) == ScanPivot(P \o X, 1, P, -1, Node0)

PivotCandidates(P, X) ==
    LET u_pivot == SelectPivot(P, X)
    IN IF u_pivot # Node0 /\ u_pivot \in DOMAIN adj
       THEN set_difference_helper(P, adj[u_pivot])
       ELSE P

PivotEntry ==
    /\ stack # << >> /\ Top.fn = "pivot" /\ Top.pc = "entry"
    /\ IF Top.P = << >> /\ Top.X = << >>
       THEN Report(Top.out, Top.R) /\ Return
       ELSE IF Top.P = << >>
       THEN NoReport /\ Return
       ELSE /\ stack' = [stack EXCEPT ![Len(stack)].pc = "loop",
                            ![Len(stack)].cands = PivotCandidates(Top.P, Top.X)]
            /\ NoReport
            /\ UNCHANGED <<i, phase>>
    /\ UNCHANGED setupVars

PivotRecurse ==
    /\ stack # << >> /\ Top.fn = "pivot" /\ Top.pc = "loop" /\ Top.cands # << >>
    /\ LET v == Head(Top.cands)
           neighbors_v == Neighbors(v)
       IN stack' = Append(
            [stack EXCEPT ![Len(stack)].pc = "back", ![Len(stack)].v = v],
            Frame("pivot", Top.out, Append(Top.R, v),
                  set_intersection_helper(Top.P, neighbors_v),
                  set_intersection_helper(Top.X, neighbors_v)))
    /\ NoReport
    /\ UNCHANGED <<i, phase>>
    /\ UNCHANGED setupVars

PivotBacktrack ==
    /\ stack # << >> /\ Top.fn = "pivot" /\ Top.pc = "back"
    /\ stack' = [stack EXCEPT ![Len(stack)].pc = "loop",
                    ![Len(stack)].P = EraseSorted(Top.P, Top.v),
                    ![Len(stack)].X = InsertSorted(Top.X, Top.v),
                    ![Len(stack)].cands = Tail(Top.cands),
                    ![Len(stack)].v = Node0]
    /\ NoReport
    /\ UNCHANGED <<i, phase>>
    /\ UNCHANGED setupVars

PivotReturn ==
    /\ stack # << >> /\ Top.fn = "pivot" /\ Top.pc = "loop" /\ Top.cands = << >>
    /\ Return
    /\ NoReport
    /\ UNCHANGED setupVars

\* ----------------------------------------------------------------- runBKRcd
RECURSIVE ScanWorst(_, _, _, _, _)
ScanWorst(P, k, isClique, u_worst, min_degree_in_P) ==
    IF k > Len(P) THEN [isClique |-> isClique, u_worst |-> u_worst]
    ELSE LET deg_in_P == IF P[k] \in DOMAIN adj
                         THEN count_intersection(P, adj[P[k]]) ELSE 0
         IN ScanWorst(P, k + 1,
                isClique /\ ~(deg_in_P < Len(P) - 1),
                IF deg_in_P < min_degree_in_P THEN P[k] ELSE u_worst,
                IF deg_in_P < min_degree_in_P THEN deg_in_P ELSE min_degree_in_P)

RcdScan(P) == ScanWorst(P, 1, TRUE, Node0, INT_MAX)

RcdIsMaximal(P, X) ==
    IF P # << >>
    THEN ~\E k \in 1..Len(X) : count_intersection(P, Neighbors(X[k])) = Len(P)
    ELSE TRUE

RcdEntry ==
    /\ stack # << >> /\ Top.fn = "rcd" /\ Top.pc = "entry"
    /\ IF Top.P = << >> /\ Top.X = << >>
       THEN Report(Top.out, Top.R) /\ Return
       ELSE /\ stack' = [stack EXCEPT ![Len(stack)].pc = "loop"]
            /\ NoReport
            /\ UNCHANGED <<i, phase>>
    /\ UNCHANGED setupVars

RcdLoop ==
    /\ stack # << >> /\ Top.fn = "rcd" /\ Top.pc = "loop"
    /\ LET scan == RcdScan(Top.P)
       IN IF scan.isClique
          THEN /\ IF RcdIsMaximal(Top.P, Top.X)
                  THEN Report(Top.out, Top.R \o Top.P)
                  ELSE NoReport
               /\ Return
          ELSE LET neighbors_u == Neighbors(scan.u_worst)
               IN /\ stack' = Append(
                        [stack EXCEPT ![Len(stack)].pc = "back",
                                      ![Len(stack)].v = scan.u_worst],
                        Frame("rcd", Top.out, Append(Top.R, scan.u_worst),
                              set_intersection_helper(Top.P, neighbors_u),
                              set_intersection_helper(Top.X, neighbors_u)))
                  /\ NoReport
                  /\ UNCHANGED <<i, phase>>
    /\ UNCHANGED setupVars

RcdBacktrack ==
    /\ stack # << >> /\ Top.fn = "rcd" /\ Top.pc = "back"
    /\ LET newP == EraseSorted(Top.P, Top.v)
           newX == InsertSorted(Top.X, Top.v)
       IN IF newP = << >>
          THEN Return
          ELSE /\ stack' = [stack EXCEPT ![Len(stack)].pc = "loop",
                               ![Len(stack)].P = newP,
                               ![Len(stack)].X = newX,
                               ![Len(stack)].v = Node0]
               /\ UNCHANGED <<i, phase>>
    /\ NoReport
    /\ UNCHANGED setupVars

\* ----------------------------------------------------------- analyzeStructure
RECURSIVE CountKernel(_, _)
CountKernel(P, k) ==
    IF k > Len(P) THEN 0
    ELSE LET deg_in_P == IF P[k] \in DOMAIN adj
                         THEN count_intersection(P, adj[P[k]]) ELSE 0
         IN (IF deg_in_P = Len(P) - 1 THEN 1 ELSE 0) + CountKernel(P, k + 1)

analyzeStructure(P) ==
    IF Len(P) = 0 THEN [s |-> 0, k |-> 0]
    ELSE [s |-> CountKernel(P, 1), k |-> Len(P) - CountKernel(P, 1)]

\* info.s >= 2.8 * info.k - 11.0, scaled by ten to stay in the integers
UseRcd(info) == 10 * info.s >= 28 * info.k - 110

\* ------------------------------------------------------ getDegeneracyOrdering
PairLess(p, q) == p[1] < q[1] \/ (p[1] = q[1] /\ p[2] < q[2])

\* an extraction that ignores the residual degree
MinPair_byNode(S) == CHOOSE p \in S : \A q \in S : p[2] <= q[2]

\* an extraction that peels the largest residual degree first
MinPair_largest(S) == CHOOSE p \in S : \A q \in S \ {p} : PairLess(q, p)

\* sortedNodes.begin() of a std::set<std::pair<int, Node>>
MinPair(S) == CHOOSE p \in S : \A q \in S \ {p} : PairLess(p, q)

\* the loop over the neighbors of the extracted vertex
RECURSIVE DecreaseNeighbors(_, _, _, _, _)
DecreaseNeighbors(nbrs, k, rem, degs, sn) ==
    IF k > Len(nbrs) THEN [degrees |-> degs, sortedNodes |-> sn]
    ELSE LET v == nbrs[k]
             old_deg == IF v \in DOMAIN degs THEN degs[v] ELSE 0
         IN IF v \in rem THEN DecreaseNeighbors(nbrs, k + 1, rem, degs, sn)
            ELSE IF <<old_deg, v>> \in sn
            THEN DecreaseNeighbors(nbrs, k + 1, rem,
                    [w \in DOMAIN degs \cup {v} |->
                        IF w = v THEN old_deg - 1 ELSE degs[w]],
                    (sn \ {<<old_deg, v>>}) \cup {<<old_deg - 1, v>>})
            ELSE DecreaseNeighbors(nbrs, k + 1, rem,
                    [w \in DOMAIN degs \cup {v} |->
                        IF w = v THEN old_deg ELSE degs[w]],
                    sn)

\* ------------------------------------------------------------------ executeBK
BuildAdjacency ==
    /\ phase = "build"
    /\ adj' = [u \in DOMAIN neighborSets |-> std_sort(neighborSets[u])]
    /\ phase' = "order_init"
    /\ UNCHANGED <<neighborSets, ftype, degrees, sortedNodes, removed, ordering,
                   orderIndex, i, stack, hashMap, baselineMap, reportLog,
                   priorMaps, ri>>

OrderInit ==
    /\ phase = "order_init"
    /\ degrees' = [u \in DOMAIN adj |-> Len(adj[u])]
    /\ sortedNodes' = {<<Len(adj[u]), u>> : u \in DOMAIN adj}
    /\ ordering' = << >>
    /\ removed' = {}
    /\ phase' = "order"
    /\ UNCHANGED <<neighborSets, ftype, adj, orderIndex, i, stack, hashMap,
                   baselineMap, reportLog, priorMaps, ri>>

OrderStep ==
    /\ phase = "order" /\ sortedNodes # {}
    /\ LET it == MinPair(sortedNodes)
           u == it[2]
           upd == DecreaseNeighbors(Neighbors(u), 1, removed \cup {u}, degrees,
                                    sortedNodes \ {it})
       IN /\ ordering' = Append(ordering, u)
          /\ removed' = removed \cup {u}
          /\ degrees' = upd.degrees
          /\ sortedNodes' = upd.sortedNodes
    /\ UNCHANGED <<neighborSets, ftype, adj, phase, orderIndex, i, stack, hashMap,
                   baselineMap, reportLog, priorMaps, ri>>

BuildOrderIndex ==
    /\ phase = "order" /\ sortedNodes = {}
    /\ orderIndex' = [n \in SeqToSet(ordering) |->
                        (CHOOSE k \in 1..Len(ordering) :
                            ordering[k] = n /\ \A j \in (k + 1)..Len(ordering) :
                                ordering[j] # n) - 1]
    /\ i' = 0
    /\ phase' = "drive"
    /\ UNCHANGED <<neighborSets, ftype, adj, degrees, sortedNodes, removed,
                   ordering, stack, hashMap, baselineMap, reportLog,
                   priorMaps, ri>>

\* a split that keeps every neighbor as a candidate
LaterNeighbors_all(neighbors, idx) == std_sort(neighbors)

\* neighbors placed after position idx of the order (P) and the others (X)
LaterNeighbors(neighbors, idx) ==
    std_sort(SelectSeq(neighbors, LAMBDA n : OrderIdx(n) > idx))

EarlierNeighbors(neighbors, idx) ==
    std_sort(SelectSeq(neighbors, LAMBDA n : ~(OrderIdx(n) > idx)))

Dispatch(P) == IF UseRcd(analyzeStructure(P)) THEN "rcd" ELSE "pivot"

DriverStep ==
    /\ phase = "drive" /\ stack = << >> /\ i < Len(ordering)
    /\ LET v == ordering[i + 1]
       IN IF v \notin DOMAIN adj
          THEN i' = i + 1 /\ stack' = stack
          ELSE LET P == LaterNeighbors(adj[v], i)
                   X == EarlierNeighbors(adj[v], i)
               IN /\ stack' = <<Frame(Dispatch(P), "hashMap", <<v>>, P, X)>>
                  /\ i' = i
    /\ NoReport
    /\ UNCHANGED <<phase>>
    /\ UNCHANGED setupVars

Finish ==
    /\ phase = "drive" /\ stack = << >> /\ i = Len(ordering)
    /\ phase' = "done"
    /\ NoReport
    /\ UNCHANGED <<i, stack>>
    /\ UNCHANGED setupVars

\* ------------------------------------------------ the plain-pivot baseline
\* runBKPivot once over the whole graph: R empty, P all vertices, X empty
BaselineStart ==
    /\ phase = "done" /\ stack = << >>
    /\ phase' = "baseline"
    /\ stack' = <<Frame("pivot", "baselineMap", << >>,
                        std_sort(DescendingSeq(DOMAIN adj)), << >>)>>
    /\ NoReport
    /\ UNCHANGED <<i>>
    /\ UNCHANGED setupVars

\* ------------------------------------- a second run, instances stored elsewhere
\* the instances at the adjacent addresses a and a + 1 change places
SwapAdjacent(a) ==
    [v \in Nodes |-> IF v = a THEN a + 1 ELSE IF v = a + 1 THEN a ELSE v]

IdentityOrders == {SwapAdjacent(a) : a \in 1..(NumNodes - 1)}

\* a ResultMap with every instance named by its new identity
RenameMap(hm, pi) ==
    [K \in DOMAIN hm |-> [f \in DOMAIN hm[K] |-> {pi[p] : p \in hm[K][f]}]]

\* executeBK is called again on the same graph and the same feature types,
\* with the instances in another identity order; the ResultMap of the run
\* just finished is kept, named by the new identities
RunAgain ==
    /\ phase = "done" /\ priorMaps = << >>
    /\ \E pi \in IdentityOrders :
          /\ neighborSets' =
                [w \in Nodes |->
                    LET v == CHOOSE u \in Nodes : pi[u] = w
                    IN DescendingSeq({pi[u] : u \in SeqToSet(neighborSets[v])})]
          /\ ftype' = [w \in Nodes |-> ftype[CHOOSE u \in Nodes : pi[u] = w]]
          /\ priorMaps' = <<RenameMap(hashMap, pi)>>
    /\ adj' = EmptyMap
    /\ phase' = "build"
    /\ degrees' = EmptyMap
    /\ sortedNodes' = {}
    /\ removed' = {}
    /\ ordering' = << >>
    /\ orderIndex' = EmptyMap
    /\ i' = 0
    /\ stack' = << >>
    /\ hashMap' = EmptyMap
    /\ reportLog' = << >>
    /\ UNCHANGED <<baselineMap, ri>>

\* ------------------------------------------------------- calcRareIntensity
RiIdle == [pc |-> "idle", c |-> << >>, featureCounts |-> EmptyMap, k |-> 0,
           minCount |-> NoCount, intensityMap |-> EmptyMap]

\* RI(f) = exp(-(ln count - ln minCount)^2 / (2 delta^2)) is kept symbolically
\* as the pair it is computed from
RareValue(count, minCount) == <<count, minCount>>

RareEmptyCheck ==
    /\ ri.pc = "start"
    /\ ri' = [ri EXCEPT !.pc = IF ri.c = << >> THEN "done" ELSE "scan", !.k = 1]
    /\ UNCHANGED graphVars

\* first loop: one feature of the colocation
RareScan ==
    /\ ri.pc = "scan" /\ ri.k <= Len(ri.c)
    /\ LET f == ri.c[ri.k]
       IN ri' = [ri EXCEPT !.k = ri.k + 1,
                    !.minCount =
                        IF f \in DOMAIN ri.featureCounts
                           /\ (ri.minCount = NoCount
                               \/ ri.featureCounts[f] < ri.minCount)
                        THEN ri.featureCounts[f]
                        ELSE ri.minCount]
    /\ UNCHANGED graphVars

RareMinCheck ==
    /\ ri.pc = "scan" /\ ri.k > Len(ri.c)
    /\ ri' = [ri EXCEPT !.pc = IF ri.minCount <= 0 THEN "done" ELSE "fill", !.k = 1]
    /\ UNCHANGED graphVars

\* second loop: one feature of the colocation
RareFill ==
    /\ ri.pc = "fill" /\ ri.k <= Len(ri.c)
    /\ LET f == ri.c[ri.k]
           m == ri.intensityMap
       IN ri' = [ri EXCEPT !.k = ri.k + 1,
                    !.intensityMap =
                        IF f \in DOMAIN ri.featureCounts /\ ri.featureCounts[f] > 0
                        THEN [g \in DOMAIN m \cup {f} |->
                                IF g = f
                                THEN RareValue(ri.featureCounts[f], ri.minCount)
                                ELSE m[g]]
                        ELSE m]
    /\ UNCHANGED graphVars

RareReturn ==
    /\ ri.pc = "fill" /\ ri.k > Len(ri.c)
    /\ ri' = [ri EXCEPT !.pc = "done"]
    /\ UNCHANGED graphVars

\* -------------------------------------------------------- the specification

Init ==
    /\ \E E \in Graphs : neighborSets = InputOf(E)
    /\ ftype \in TypeAssignments
    /\ adj = EmptyMap
    /\ phase = "build"
    /\ degrees = EmptyMap
    /\ sortedNodes = {}
    /\ removed = {}
    /\ ordering = << >>
    /\ orderIndex = EmptyMap
    /\ i = 0
    /\ stack = << >>
    /\ hashMap = EmptyMap
    /\ baselineMap = EmptyMap
    /\ reportLog = << >>
    /\ priorMaps = << >>
    /\ ri = RiIdle

Next ==
    \/ BuildAdjacency
    \/ OrderInit
    \/ OrderStep
    \/ BuildOrderIndex
    \/ DriverStep
    \/ PivotEntry
    \/ PivotRecurse
    \/ PivotBacktrack
    \/ PivotReturn
    \/ RcdEntry
    \/ RcdLoop
    \/ RcdBacktrack
    \/ Finish

Spec == Init /\ [][Next]_vars

\* executeBK followed by the plain-pivot baseline on the same graph
NextStrategies == Next \/ BaselineStart

SpecStrategies == Init /\ [][NextStrategies]_vars

\* the states in which executeBK has a statement to run: the disjunction of
\* the guards of the actions of Next
NextEnabled ==
    \/ phase \in {"build", "order_init", "order"}
    \/ phase = "drive" /\ stack = << >> /\ i <= Len(ordering)
    \/ stack # << >> /\ Top.fn \in {"pivot", "rcd"}
                     /\ Top.pc \in {"entry", "loop", "back"}

\* executeBK as the single sequential thread it is: a statement that can run
\* does run.  This is WF_vars(Next) with ENABLED <<Next>>_vars written out
\* as NextEnabled.
SpecLive == Init /\ [][Next]_vars /\ ([]<>(~NextEnabled) \/ []<><<Next>>_vars)

\* executeBK twice on the same data, the second time under another identity
\* order
NextOrders == Next \/ RunAgain

SpecOrders == Init /\ [][NextOrders]_vars

\* one call of calcRareIntensity on a drawn colocation and counts map
RECURSIVE SeqsUpTo(_, _)
SeqsUpTo(S, n) ==
    IF n = 0 THEN {<< >>}
    ELSE SeqsUpTo(S, n - 1)
         \cup {Append(q, x) : q \in {r \in SeqsUpTo(S, n - 1) : Len(r) = n - 1},
                              x \in S}

CountMaps == UNION {[D -> (-1)..MaxCount] : D \in SUBSET FeatureTypes}

InitRare ==
    /\ neighborSets = EmptyMap
    /\ ftype = EmptyMap
    /\ adj = EmptyMap
    /\ phase = "idle"
    /\ degrees = EmptyMap
    /\ sortedNodes = {}
    /\ removed = {}
    /\ ordering = << >>
    /\ orderIndex = EmptyMap
    /\ i = 0
    /\ stack = << >>
    /\ hashMap = EmptyMap
    /\ baselineMap = EmptyMap
    /\ reportLog = << >>
    /\ priorMaps = << >>
    /\ \E c \in SeqsUpTo(FeatureTypes, MaxColoLen), fc \in CountMaps :
          ri = [RiIdle EXCEPT !.pc = "start", !.c = c, !.featureCounts = fc]

NextRare ==
    \/ RareEmptyCheck
    \/ RareScan
    \/ RareMinCheck
    \/ RareFill
    \/ RareReturn

SpecRare == InitRare /\ [][NextRare]_vars

(***************************************************************************)
(* Reference notions, defined on the input graph alone                     *)
(***************************************************************************)
Adjacent(u, v) ==
    u # v /\ \E k \in 1..Len(neighborSets[u]) : neighborSets[u][k] = v

NeighborhoodOf(v) == {u \in DOMAIN neighborSets : Adjacent(v, u)}

IsCliqueSet(S) == \A a \in S, b \in S : a # b => Adjacent(a, b)

IsMaximalClique(S) ==
    /\ S # {}
    /\ IsCliqueSet(S)
    /\ \A w \in DOMAIN neighborSets \ S : \E a \in S : ~Adjacent(w, a)

\* the brute-force enumerator: every vertex subset is tried
MaximalCliques == {S \in SUBSET (DOMAIN neighborSets) : IsMaximalClique(S)}

BigMaximalCliques == {S \in MaximalCliques : Cardinality(S) >= 2}

\* the ascending type sequence of a vertex set, one entry per vertex
RECURSIVE TypeRun(_, _)
TypeRun(S, t) ==
    IF t > NumTypes THEN << >>
    ELSE [k \in 1..Cardinality({p \in S : ftype[p] = t}) |-> t] \o TypeRun(S, t + 1)

TypeKey(S) == TypeRun(S, 1)

BruteForceMap ==
    [K \in {TypeKey(S) : S \in BigMaximalCliques} |->
        [f \in SeqToSet(K) |->
            UNION {{p \in S : ftype[p] = f} :
                   S \in {T \in BigMaximalCliques : TypeKey(T) = K}}]]

PositionOf(v) == CHOOSE k \in 1..Len(ordering) : ordering[k] = v

StrictlyAscending(s) == \A k \in 1..(Len(s) - 1) : s[k] < s[k + 1]

(***************************************************************************)
(* Claims                                                                  *)
(***************************************************************************)

\* C1: the ResultMap returned by executeBK is exactly the aggregation of the
\* maximal cliques of size >= 2 found by the brute-force enumerator: the same
\* keys and, under each key and feature type, the same instances.
C1_ResultIsBruteForce == phase = "done" => hashMap = BruteForceMap

\* C2: the hybrid driver and the plain-pivot baseline (one runBKPivot call
\* with R empty, P all vertices, X empty) end with identical ResultMaps.
C2_StrategiesAgree == phase = "compared" => hashMap = baselineMap

\* C3: at every moment of executeBK, every instance p stored under key K and
\* feature type f lies in a maximal clique of size >= 2 whose sorted type
\* sequence is K, and f is the type of p.
C3_EntriesAreWitnessed ==
    \A K \in DOMAIN hashMap : \A f \in DOMAIN hashMap[K] : \A p \in hashMap[K][f] :
        \E C \in BigMaximalCliques : p \in C /\ ftype[p] = f /\ TypeKey(C) = K

\* C4: report_clique leaves the ResultMap unchanged for |R| < 2; for |R| >= 2
\* it creates or reuses the entry keyed by the ascending type sequence of R
\* (one entry per participant) and inserts every participant under its own
\* type, touching nothing else.  In every ResultMap the inner map of key K has
\* exactly the types occurring in K, and an instance under type f has type f.
ReportEffect ==
    Len(reportLog') = Len(reportLog) + 1 =>
        LET R == reportLog'[Len(reportLog')]
            K == TypeKey(SeqToSet(R))
        IN IF Len(R) < 2 THEN hashMap' = hashMap
           ELSE /\ Len(K) = Len(R)
                /\ DOMAIN hashMap' = DOMAIN hashMap \cup {K}
                /\ \A c \in DOMAIN hashMap : c # K => hashMap'[c] = hashMap[c]
                /\ \A p \in SeqToSet(R) :
                      /\ ftype[p] \in DOMAIN hashMap'[K]
                      /\ p \in hashMap'[K][ftype[p]]
                /\ \A f \in DOMAIN hashMap'[K] : \A p \in hashMap'[K][f] :
                      \/ p \in SeqToSet(R) /\ ftype[p] = f
                      \/ K \in DOMAIN hashMap /\ f \in DOMAIN hashMap[K]
                         /\ p \in hashMap[K][f]

KeyShape(hm) ==
    \A K \in DOMAIN hm :
        /\ \A k \in 1..(Len(K) - 1) : K[k] <= K[k + 1]
        /\ DOMAIN hm[K] = SeqToSet(K)
        /\ \A f \in DOMAIN hm[K] : \A p \in hm[K][f] : ftype[p] = f

C4_ReportClique == [][ReportEffect /\ KeyShape(hashMap')]_vars

\* C4 witness: a clique of at least three instances with a repeated type and
\* two different types has been aggregated.
C4_Witness ==
    \E K \in DOMAIN hashMap :
        /\ Len(K) >= 3
        /\ Cardinality(SeqToSet(K)) = 2
        /\ \A f \in DOMAIN hashMap[K] : hashMap[K][f] # {}

\* C5: calcRareIntensity returns an empty mapping whenever the minimum count
\* among the colocation's feature types present in the counts map is <= 0,
\* whatever the counts and the order of the colocation; otherwise it returns
\* an entry for exactly the colocation's feature types present in counts.
RarePresent == SeqToSet(ri.c) \cap DOMAIN ri.featureCounts

RareTrueMin ==
    CHOOSE m \in {ri.featureCounts[f] : f \in RarePresent} :
        \A f \in RarePresent : m <= ri.featureCounts[f]

C5_RareIntensityKeys ==
    ri.pc = "done" =>
        IF RarePresent # {} /\ RareTrueMin <= 0
        THEN ri.intensityMap = EmptyMap
        ELSE DOMAIN ri.intensityMap = RarePresent

\* C6: when a runBKRcd branch finds P to be a clique (P empty with X
\* non-empty included), R \cup P is reported if and only if no vertex of X is
\* adjacent to every vertex of P, and the branch returns in either case.
C6_RcdCliqueBranch ==
    [][(stack # << >> /\ Top.fn = "rcd" /\ Top.pc = "loop"
        /\ IsCliqueSet(SeqToSet(Top.P)))
       => /\ stack' = Below
          /\ (reportLog' = Append(reportLog, Top.R \o Top.P))
             <=> ~\E x \in SeqToSet(Top.X) :
                    \A p \in SeqToSet(Top.P) : Adjacent(x, p)
          /\ reportLog' # reportLog => reportLog' = Append(reportLog, Top.R \o Top.P)
      ]_vars

\* C7: over a whole executeBK run no vertex set is passed to report_clique
\* twice, and at the end each maximal clique of size >= 2 has been reported
\* exactly once, in the subproblem of its earliest vertex in the degeneracy
\* order (the first element of the reported R).
EarliestOf(C) == CHOOSE v \in C : \A w \in C : PositionOf(v) <= PositionOf(w)

C7_ReportedOnce ==
    /\ Cardinality({SeqToSet(reportLog[k]) : k \in 1..Len(reportLog)}) = Len(reportLog)
    /\ phase = "done" =>
          \A C \in BigMaximalCliques :
              \E k \in 1..Len(reportLog) :
                  /\ SeqToSet(reportLog[k]) = C
                  /\ reportLog[k][1] = EarliestOf(C)

\* C7 witness: a finished run in which one subproblem reported two cliques,
\* one of them of at least three vertices.
C7_Witness ==
    /\ phase = "done"
    /\ \E j \in 1..Len(reportLog), k \in 1..Len(reportLog) :
          /\ j < k
          /\ reportLog[j][1] = reportLog[k][1]
          /\ Len(reportLog[j]) >= 3
          /\ Len(reportLog[k]) >= 2

\* C8: in every activation of runBKPivot and runBKRcd, at entry and after
\* every backtracking step, P and X are strictly ascending and R, P and X are
\* pairwise disjoint.
C8_SortedDisjoint ==
    \A d \in 1..Len(stack) :
        LET fr == stack[d]
        IN /\ StrictlyAscending(fr.P)
           /\ StrictlyAscending(fr.X)
           /\ SeqToSet(fr.R) \cap SeqToSet(fr.P) = {}
           /\ SeqToSet(fr.R) \cap SeqToSet(fr.X) = {}
           /\ SeqToSet(fr.P) \cap SeqToSet(fr.X) = {}
           /\ Cardinality(SeqToSet(fr.R)) = Len(fr.R)

\* C8 witness: after a backtracking step a vertex moved from P stands in X
\* before a vertex that was there already, and P is not empty.
C8_Witness ==
    \E d \in 1..Len(stack) :
        /\ stack[d].pc = "loop"
        /\ stack[d].P # << >>
        /\ \E a \in 1..Len(stack[d].X), b \in 1..Len(stack[d].X) :
              /\ a < b
              /\ OrderIdx(stack[d].X[a]) > OrderIdx(stack[d].R[1])
              /\ OrderIdx(stack[d].X[b]) < OrderIdx(stack[d].R[1])

\* C9: getDegeneracyOrdering returns a permutation of all instances; after
\* every extraction step the vertex just appended had the smallest residual
\* degree among the vertices still present, ties broken by the smallest
\* identity; and the tracked residual degree of a present vertex is its number
\* of present neighbors.
ResidualDegree(w, gone) ==
    Cardinality({u \in DOMAIN neighborSets \ gone : Adjacent(w, u)})

C9_DegeneracyOrdering ==
    /\ phase = "order" =>
          /\ removed = SeqToSet(ordering)
          /\ Cardinality(removed) = Len(ordering)
          /\ \A w \in DOMAIN neighborSets \ removed :
                /\ degrees[w] = ResidualDegree(w, removed)
                /\ <<degrees[w], w>> \in sortedNodes
    /\ (phase = "order" /\ ordering # << >>) =>
          LET u == ordering[Len(ordering)]
              gone == removed \ {u}
          IN \A w \in DOMAIN neighborSets \ gone :
                \/ ResidualDegree(u, gone) < ResidualDegree(w, gone)
                \/ ResidualDegree(u, gone) = ResidualDegree(w, gone) /\ u <= w
    /\ phase \in {"drive", "done"} =>
          /\ Len(ordering) = Cardinality(DOMAIN neighborSets)
          /\ SeqToSet(ordering) = DOMAIN neighborSets

\* C9 witness: the order is complete, a vertex was extracted ahead of a
\* smaller identity because its residual degree was smaller, and its original
\* degree was larger than the residual degree it was extracted with.
C9_Witness ==
    /\ phase = "drive"
    /\ \E k \in 2..Len(ordering) :
          LET gone == {ordering[j] : j \in 1..(k - 1)}
              u == ordering[k]
          IN /\ ResidualDegree(u, gone) < ResidualDegree(u, {})
             /\ \E w \in DOMAIN neighborSets \ gone : w < u

\* C10: the subproblem executeBK builds for the vertex v at position i has P
\* exactly the neighbors of v placed after i and X exactly the neighbors
\* placed before i (a partition of N(v) without v), and |P| is at most the
\* degeneracy of the graph.
\* the degeneracy (the maximum over all induced subgraphs of the minimum
\* degree) is at least n: some induced subgraph has minimum degree >= n
DegeneracyAtLeast(n) ==
    \E S \in SUBSET (DOMAIN neighborSets) \ {{}} :
        \A w \in S : Cardinality({u \in S : Adjacent(w, u)}) >= n

C10_Subproblem ==
    (Len(stack) = 1 /\ stack[1].pc = "entry" /\ phase = "drive") =>
        LET v == stack[1].R[1]
            P == SeqToSet(stack[1].P)
            X == SeqToSet(stack[1].X)
        IN /\ stack[1].R = <<ordering[i + 1]>>
           /\ P = {u \in NeighborhoodOf(v) : PositionOf(u) > i + 1}
           /\ X = {u \in NeighborhoodOf(v) : PositionOf(u) < i + 1}
           /\ P \cup X = NeighborhoodOf(v)
           /\ P \cap X = {}
           /\ v \notin P \cup X
           /\ DegeneracyAtLeast(Len(stack[1].P))

\* C10 witness: a subproblem with both earlier and later neighbors whose P is
\* as large as the degeneracy allows.
C10_Witness ==
    /\ Len(stack) = 1 /\ stack[1].pc = "entry" /\ phase = "drive"
    /\ stack[1].X # << >>
    /\ Len(stack[1].P) >= 2
    /\ ~DegeneracyAtLeast(Len(stack[1].P) + 1)

\* C11: every executeBK run terminates; each iteration of the runBKRcd loop
\* and of the runBKPivot candidate loop removes exactly the chosen vertex from
\* the live P, each recursive call extends R by one vertex, and the nesting
\* depth of the calls never exceeds the size of the largest clique.
HasCliqueOfSize(n) ==
    \E S \in SUBSET (DOMAIN neighborSets) : Cardinality(S) = n /\ IsCliqueSet(S)

LoopShrinksP ==
    (stack # << >> /\ Top.pc = "back") =>
        /\ Top.v \in SeqToSet(Top.P)
        /\ Len(stack') = Len(stack) =>
              /\ Len(stack'[Len(stack)].P) = Len(Top.P) - 1
              /\ SeqToSet(stack'[Len(stack)].P) = SeqToSet(Top.P) \ {Top.v}

CallExtendsR ==
    (stack # << >> /\ Len(stack') = Len(stack) + 1) =>
        /\ Len(stack'[Len(stack')].R) = Len(Top.R) + 1
        /\ SubSeq(stack'[Len(stack')].R, 1, Len(Top.R)) = Top.R
        /\ stack'[Len(stack')].R[Len(Top.R) + 1] \in SeqToSet(Top.P)

DepthBounded == stack # << >> => HasCliqueOfSize(Len(stack))

C11_Terminates ==
    /\ [][LoopShrinksP /\ CallExtendsR]_vars
    /\ []DepthBounded
    /\ <>(phase = "done")

\* C11 witness: a chain of calls as deep as the largest clique of the graph,
\* reached after the outermost loop had already moved a vertex from P to X.
C11_Witness ==
    /\ Len(stack) >= 3
    /\ ~HasCliqueOfSize(Len(stack) + 1)
    /\ \E k \in 1..Len(stack[1].X) :
          OrderIdx(stack[1].X[k]) > OrderIdx(stack[1].R[1])

\* C12: for a fixed graph and fixed feature types, two executeBK runs that
\* differ only in the total order of the instance identities return equal
\* ResultMaps (the same keys and, under each key and type, the same instances).
C12_OrderIndependent ==
    (phase = "done" /\ priorMaps # << >>) => hashMap = priorMaps[1]

\* C13: in every activation of runBKPivot and runBKRcd reached from executeBK,
\* at entry and from then on, R is a clique of the graph and every vertex of P
\* and of X is adjacent to every vertex of R; every vertex set passed to
\* report_clique is a clique.
CommonNeighborhood(R) ==
    {u \in DOMAIN neighborSets : \A k \in 1..Len(R) : Adjacent(u, R[k])}

C13_CliqueInvariant ==
    /\ \A d \in 1..Len(stack) :
          /\ IsCliqueSet(SeqToSet(stack[d].R))
          /\ SeqToSet(stack[d].P) \subseteq CommonNeighborhood(stack[d].R)
          /\ SeqToSet(stack[d].X) \subseteq CommonNeighborhood(stack[d].R)
    /\ \A k \in 1..Len(reportLog) : IsCliqueSet(SeqToSet(reportLog[k]))

\* C13 witness: a recursive call is entered with candidates and excluded
\* vertices both left, after a clique of at least three vertices was reported.
C13_Witness ==
    /\ Len(stack) >= 2
    /\ Top.pc = "entry"
    /\ Top.P # << >>
    /\ Top.X # << >>
    /\ \E k \in 1..Len(reportLog) : Len(reportLog[k]) >= 3

====
